---- MODULE Spec2Model ----
(***************************************************************************)
(* Model of isdttool/charger/ble.py: the packet codec, the AF01 command    *)
(* registry, the BluetoothCharger session (single pending-future slot),    *)
(* the connect() context manager and the reconnect loop of main().         *)
(***************************************************************************)
EXTENDS Integers, Sequences, FiniteSets, TLC

(***************************************************************************)
(* Bounds of the model.                                                    *)
(***************************************************************************)
\* largest total_channels carried by the telemetry messages the device sends
MaxChannels == 1

(***************************************************************************)
(* construct field kinds used by the packet classes (lines 74-177).        *)
(***************************************************************************)
Const(b)      == [t |-> "Const",   v |-> b, rec |-> <<>>]
Byte          == [t |-> "Byte",    v |-> 0, rec |-> <<>>]
Flag          == [t |-> "Flag",    v |-> 0, rec |-> <<>>]
Bytes(n)      == [t |-> "Bytes",   v |-> n, rec |-> <<>>]
Int32ul       == [t |-> "Int32ul", v |-> 0, rec |-> <<>>]
\* cs.Array(cs.this.<field i of the enclosing struct>, rec)
Array(i, rec) == [t |-> "Array",   v |-> i, rec |-> rec]

ParseFail == [ok |-> FALSE, val |-> <<>>, rest |-> <<>>]
ParseOk(v, rest) == [ok |-> TRUE, val |-> v, rest |-> rest]

Drop(s, n) == SubSeq(s, n + 1, Len(s))

RECURSIVE ParseStruct(_, _, _, _)
RECURSIVE ParseArray(_, _, _, _)

\* parsing one field from the front of data; acc holds the fields parsed so
\* far in the enclosing struct (the construct context `this`)
ParseField(f, data, acc) ==
    CASE f.t = "Const" ->
           IF Len(data) >= 1 /\ data[1] = f.v
           THEN ParseOk(f.v, Drop(data, 1)) ELSE ParseFail
      [] f.t = "Byte" ->
           IF Len(data) >= 1 THEN ParseOk(data[1], Drop(data, 1)) ELSE ParseFail
      [] f.t = "Flag" ->
           IF Len(data) >= 1 THEN ParseOk(data[1] # 0, Drop(data, 1)) ELSE ParseFail
      [] f.t = "Bytes" ->
           IF Len(data) >= f.v
           THEN ParseOk(SubSeq(data, 1, f.v), Drop(data, f.v)) ELSE ParseFail
      [] f.t = "Int32ul" ->
           IF Len(data) >= 4
           THEN ParseOk(data[1] + 256 * data[2] + 65536 * data[3]
                          + 16777216 * data[4], Drop(data, 4))
           ELSE ParseFail
      [] f.t = "Array" -> ParseArray(f.rec, acc[f.v], data, <<>>)

\* Struct parsing: the fields in declaration order; stops at the first failure
ParseStruct(shape, i, data, acc) ==
    IF i > Len(shape) THEN ParseOk(acc, data)
    ELSE LET r == ParseField(shape[i], data, acc)
         IN  IF r.ok THEN ParseStruct(shape, i + 1, r.rest, Append(acc, r.val))
             ELSE ParseFail

\* exactly n records of shape rec, one after the other
ParseArray(rec, n, data, acc) ==
    IF n = 0 THEN ParseOk(acc, data)
    ELSE LET r == ParseStruct(rec, 1, data, <<>>)
         IN  IF r.ok THEN ParseArray(rec, n - 1, r.rest, Append(acc, r.val))
             ELSE ParseFail

RECURSIVE BuildStruct(_, _, _)
RECURSIVE BuildArray(_, _, _)

\* Int32ul built with the most significant byte first
Int32ulBytes_big_endian(x) ==
    << (x \div 16777216) % 256, (x \div 65536) % 256, (x \div 256) % 256, x % 256 >>

Int32ulBytes(x) ==
    << x % 256, (x \div 256) % 256, (x \div 65536) % 256, (x \div 16777216) % 256 >>

\* building one field; vals are the values of the enclosing struct
BuildField(f, x, vals) ==
    CASE f.t = "Const"   -> << f.v >>
      [] f.t = "Byte"    -> << x >>
      [] f.t = "Flag"    -> << IF x THEN 1 ELSE 0 >>
      [] f.t = "Bytes"   -> x
      [] f.t = "Int32ul" -> Int32ulBytes(x)
      [] f.t = "Array"   -> BuildArray(f.rec, x, 1)

BuildStruct(shape, vals, i) ==
    IF i > Len(shape) THEN <<>>
    ELSE BuildField(shape[i], vals[i], vals) \o BuildStruct(shape, vals, i + 1)

BuildArray(rec, xs, i) ==
    IF i > Len(xs) THEN <<>>
    ELSE BuildStruct(rec, xs[i], 1) \o BuildArray(rec, xs, i + 1)

(***************************************************************************)
(* Packet classes (lines 70-177).  A decorated class is the struct of the  *)
(* base class' constant fields followed by the class' own fields.          *)
(***************************************************************************)
\* default direction byte of req(), 0x12
ReqDirection == 18
\* default direction byte of resp(), 0x31
RespDirection == 49

af02_packet(cmd, fields) == << Const(cmd) >> \o fields
req(cmd, direction, fields) == << Const(direction), Const(cmd) >> \o fields
resp(cmd, fields) == req(cmd, RespDirection, fields)

PS200WorkingStatusChannel ==
    << Byte, Byte, Byte, Byte, Bytes(2),
       Int32ul, Int32ul, Int32ul, Int32ul, Int32ul, Int32ul, Int32ul >>
PS200DCStatusChannel ==
    << Byte, Byte, Int32ul, Int32ul, Int32ul, Int32ul, Int32ul >>

\* the classes decorated with req/resp, in the order of their definition:
\* name, command byte and struct
AF01Decls ==
    << [name |-> "AlarmToneReq", cmd |-> 146,
        struct |-> req(146, ReqDirection, <<>>)],
       [name |-> "AlarmToneResp", cmd |-> 147,
        struct |-> resp(147, << Flag >>)],
       [name |-> "PS200WorkingStatusReq", cmd |-> 148,
        struct |-> req(148, ReqDirection, <<>>)],
       [name |-> "PS200WorkingStatusResp", cmd |-> 149,
        struct |-> resp(149, << Byte, Int32ul,
                                Array(3, PS200WorkingStatusChannel) >>)],
       [name |-> "PS200DCStatusReq", cmd |-> 150,
        struct |-> req(150, ReqDirection, <<>>)],
       [name |-> "PS200DCStatusResp", cmd |-> 151,
        struct |-> resp(151, << Int32ul, Byte,
                                Array(4, PS200DCStatusChannel) >>)],
       [name |-> "AlarmToneTaskReq", cmd |-> 156,
        struct |-> req(156, 19, << Byte >>)],
       [name |-> "AlarmToneTaskResp", cmd |-> 157,
        struct |-> req(157, ReqDirection, << Byte >>)] >>

\* the classes decorated with af02_packet
AF02Decls ==
    << [name |-> "BindReq", cmd |-> 24,
        struct |-> af02_packet(24, << Bytes(16), Const(0) >>)],
       [name |-> "BindResp", cmd |-> 25,
        struct |-> af02_packet(25, << Byte >>)],
       [name |-> "BLEHardwareInfoReq", cmd |-> 224,
        struct |-> af02_packet(224, <<>>)],
       [name |-> "BLEHardwareInfoResp", cmd |-> 225,
        struct |-> af02_packet(225, << Byte, Byte, Byte, Byte, Bytes(8) >>)] >>

AllDecls == AF01Decls \o AF02Decls

\* the struct of a packet class, by the class' name
Struct(cls) ==
    AllDecls[CHOOSE i \in 1..Len(AllDecls) : AllDecls[i].name = cls].struct

\* _CMD_CLASSES after import: wrap() stores every class req/resp decorates
\* under its command byte, a later class replacing an earlier one
CMD_CLASSES ==
    [c \in {AF01Decls[i].cmd : i \in 1..Len(AF01Decls)} |->
        LET last == CHOOSE i \in 1..Len(AF01Decls) :
                       /\ AF01Decls[i].cmd = c
                       /\ \A j \in 1..Len(AF01Decls) :
                              AF01Decls[j].cmd = c => j <= i
        IN  AF01Decls[last].name]

NoObj == [cls |-> "None", val |-> <<>>]

\* cls.parser.parse(data): the decoded instance, or a raised construct error
Parse(cls, data) ==
    LET r == ParseStruct(Struct(cls), 1, data, <<>>)
    IN  IF r.ok THEN [ok |-> TRUE, obj |-> [cls |-> cls, val |-> r.val]]
        ELSE [ok |-> FALSE, obj |-> NoObj]

\* packet.parser.build(packet)
Build(obj) == BuildStruct(Struct(obj.cls), obj.val, 1)

\* an instance of a packet class without fields of its own: PS200DCStatusReq()
NewPacket(cls) ==
    LET st == Struct(cls)
    IN  [cls |-> cls, val |-> [i \in 1..Len(st) |-> st[i].v]]

(***************************************************************************)
(* What the device may send.                                               *)
(***************************************************************************)
DCChannelVal == << 1, 1, 5000, 2000, 100, 10, 65 >>
WSChannelVal == << 1, 1, 2, 3, << 0, 0 >>, 5000, 2000, 10, 100, 10, 60, 1234 >>

DCStatusResp(n) ==
    [cls |-> "PS200DCStatusResp",
     val |-> << 49, 151, 258, n, [i \in 1..n |-> DCChannelVal] >>]
WorkingStatusResp(n) ==
    [cls |-> "PS200WorkingStatusResp",
     val |-> << 49, 149, n, 258, [i \in 1..n |-> WSChannelVal] >>]

\* notifications on AF01: well-formed telemetry with 0..MaxChannels channel
\* records, an alarm-tone response, the bytes of a request class, and
\* truncated, wrong-count, wrong-constant, unregistered and one-byte messages,
\* and alarm-tone-task packets with each of the three direction bytes
InboundAF01 ==
    {Build(DCStatusResp(n)) : n \in 0..MaxChannels}
      \cup {Build(WorkingStatusResp(n)) : n \in 0..MaxChannels}
      \cup { << 49, 147, 1 >>,
             << 18, 150 >>,
             << 49, 151, 2, 1 >>,
             << 49, 151, 2, 1, 0, 0, 1 >>,
             << 18, 151, 2, 1, 0, 0, 0 >>,
             << 49, 85 >>,
             << 49 >>,
             << 19, 156, 1 >>,
             << 18, 157, 1 >>,
             << 49, 157, 1 >> }

\* notifications on AF02: bind response, hardware info response, others
InboundAF02 ==
    { << 25, 1 >>,
      << 225, 1, 2, 3, 4, 0, 1, 2, 3, 4, 5, 6, 7 >>,
      << 25 >>,
      << 193, 0 >>,
      << 0, 245 >>,
      <<>> }

\* the notifications two concurrent callers are tried with: one of each
\* telemetry response, an undecodable and an unregistered message
ApiInboundAF01 ==
    { Build(DCStatusResp(0)), Build(WorkingStatusResp(MaxChannels)),
      << 49, 151, 2, 1 >>, << 49, 85 >> }

(***************************************************************************)
(* State.                                                                  *)
(***************************************************************************)
Tasks == {"main", "aux"}
None == "None"

VARIABLES
    gatt,         \* the GATT profile of the device: "full", "no_af00", "no_af01"
    link,         \* the BleakClient: "none" (no client), "up", "down"
    notify,       \* start_notify has registered the two callbacks
    pc,           \* where main() is; "api" when callers use a charger directly
    exc,          \* the exception propagating, caught last or ending main()
    call,         \* per task: the verb it is in and the step of that verb
    fut,          \* per task: the future its request_af01 created last
    af01_future,  \* BluetoothCharger.af01_future: None or the owner of the future
    hwWrites,     \* hardware-info requests written on this connection (at most 2 counted)
    polls,        \* command bytes of the last two poll requests written on this connection
    ev            \* the step taken last: what it was given and what it produced

vars == << gatt, link, notify, pc, exc, call, fut, af01_future,
           hwWrites, polls, ev >>

Idle == [verb |-> "none", step |-> "idle", tries |-> 0]
NoFuture == [state |-> "none", result |-> NoObj]
Event(op, task, data, obj, out) ==
    [op |-> op, task |-> task, data |-> data, obj |-> obj, out |-> out]

(***************************************************************************)
(* BluetoothCharger (lines 216-269).                                       *)
(***************************************************************************)
\* the wildcard _ of a match pattern
Wild == -1

\* a sequence pattern of a match statement: the subject has the pattern's
\* length and agrees with it wherever the pattern is not the wildcard
MatchSeq(subject, pattern) ==
    /\ Len(subject) = Len(pattern)
    /\ \A i \in 1..Len(pattern) : pattern[i] = Wild \/ subject[i] = pattern[i]

\* data[0:1]
FirstByteSlice(data) == SubSeq(data, 1, IF Len(data) >= 1 THEN 1 ELSE 0)

RawBytes(data) == [cls |-> "bytes", val |-> data]

\* _af02_callback: the object it logs, or the construct error parse raises
af02_callback(data) ==
    LET subject == FirstByteSlice(data)
        cls == IF MatchSeq(subject, << 25, Wild >>) THEN "BindResp"
               ELSE IF MatchSeq(subject, << 225, Wild >>) THEN "BLEHardwareInfoResp"
               ELSE None
    IN  IF cls = None THEN [out |-> "logged", obj |-> RawBytes(data)]
        ELSE IF Parse(cls, data).ok
             THEN [out |-> "logged", obj |-> Parse(cls, data).obj]
             ELSE [out |-> "ConstructError", obj |-> NoObj]

\* _af01_callback without the line that clears the slot
af01_callback_keeps_slot(slot, futs, data) ==
    IF Len(data) >= 2 /\ data[2] \in DOMAIN CMD_CLASSES
       /\ Parse(CMD_CLASSES[data[2]], data).ok /\ slot # None
       /\ futs[slot].state = "pending"
    THEN [slot |-> slot,
          fut |-> [futs EXCEPT ![slot] =
                      [state |-> "done",
                       result |-> Parse(CMD_CLASSES[data[2]], data).obj]],
          out |-> "resolved", obj |-> Parse(CMD_CLASSES[data[2]], data).obj]
    ELSE [slot |-> slot, fut |-> futs, out |-> "other", obj |-> NoObj]

\* _af01_callback resolving every pending future instead of the slot's
af01_callback_resolves_all(slot, futs, data) ==
    IF Len(data) >= 2 /\ data[2] \in DOMAIN CMD_CLASSES
       /\ Parse(CMD_CLASSES[data[2]], data).ok /\ slot # None
    THEN [slot |-> None,
          fut |-> [t \in Tasks |->
                      IF futs[t].state = "pending"
                      THEN [state |-> "done",
                            result |-> Parse(CMD_CLASSES[data[2]], data).obj]
                      ELSE futs[t]],
          out |-> "resolved", obj |-> Parse(CMD_CLASSES[data[2]], data).obj]
    ELSE [slot |-> slot, fut |-> futs, out |-> "other", obj |-> NoObj]

\* _af01_callback emptying the slot on a message of an unknown command
af01_callback_unknown_clears(slot, futs, data) ==
    IF Len(data) >= 2 /\ data[2] \notin DOMAIN CMD_CLASSES
    THEN [slot |-> None, fut |-> futs, out |-> "unknown", obj |-> NoObj]
    ELSE [slot |-> slot, fut |-> futs, out |-> "other", obj |-> NoObj]

\* _af01_callback: the slot and the futures it leaves, and what it did:
\* "resolved", "unexpected" and "unknown" (the two warnings), or the
\* exception that leaves it (data[1], parse and set_result can raise)
af01_callback(slot, futs, data) ==
    IF Len(data) < 2
    THEN [slot |-> slot, fut |-> futs, out |-> "IndexError", obj |-> NoObj]
    ELSE IF data[2] \notin DOMAIN CMD_CLASSES
    THEN [slot |-> slot, fut |-> futs, out |-> "unknown", obj |-> NoObj]
    ELSE LET r == Parse(CMD_CLASSES[data[2]], data)
         IN  IF ~r.ok
             THEN [slot |-> slot, fut |-> futs, out |-> "ConstructError",
                   obj |-> NoObj]
             ELSE IF slot = None
             THEN [slot |-> slot, fut |-> futs, out |-> "unexpected",
                   obj |-> r.obj]
             ELSE IF futs[slot].state # "pending"
             THEN [slot |-> slot, fut |-> futs, out |-> "InvalidStateError",
                   obj |-> r.obj]
             ELSE [slot |-> None,
                   fut |-> [futs EXCEPT ![slot] =
                               [state |-> "done", result |-> r.obj]],
                   out |-> "resolved", obj |-> r.obj]

\* attempts of retry_bluetooth_connection_error() around _write_char
RetryAttempts == 2

\* the request class a verb sends and the characteristic it writes to
VerbPacket(verb) ==
    CASE verb = "hwinfo" -> "BLEHardwareInfoReq"
      [] verb = "dc"     -> "PS200DCStatusReq"
      [] verb = "ws"     -> "PS200WorkingStatusReq"
VerbChannel(verb) == IF verb = "hwinfo" THEN "AF02" ELSE "AF01"

\* main() with a poll loop that asks for the DC status only
AfterVerb_skips_ws(p) ==
    CASE p = "hwinfo" -> "dc"
      [] p = "dc"     -> "sleep"
      [] OTHER        -> p

\* main() goes on to the next statement when a verb returns
AfterVerb(p) ==
    CASE p = "hwinfo" -> "dc"
      [] p = "dc"     -> "ws"
      [] p = "ws"     -> "sleep"
      [] OTHER        -> p

\* request_af01 that has not stored its future when the write starts
request_af01_no_install(t, verb) ==
    /\ call[t] = Idle
    /\ fut' = [fut EXCEPT ![t] = [state |-> "pending", result |-> NoObj]]
    /\ af01_future' = af01_future
    /\ call' = [call EXCEPT ![t] = [verb |-> verb, step |-> "write", tries |-> 0]]
    /\ ev' = Event("request", t, <<>>, NoObj, verb)

\* request_af01 up to its first await: a new future goes into the slot
request_af01(t, verb) ==
    /\ call[t] = Idle
    /\ fut' = [fut EXCEPT ![t] = [state |-> "pending", result |-> NoObj]]
    /\ af01_future' = t
    /\ call' = [call EXCEPT ![t] = [verb |-> verb, step |-> "write", tries |-> 0]]
    /\ ev' = Event("request", t, <<>>, NoObj, verb)

\* write_af02 up to its first await
write_af02(t, verb) ==
    /\ call[t] = Idle
    /\ call' = [call EXCEPT ![t] = [verb |-> verb, step |-> "write", tries |-> 0]]
    /\ ev' = Event("request", t, <<>>, NoObj, verb)
    /\ UNCHANGED << fut, af01_future >>

(***************************************************************************)
(* The steps of a verb, for the task that is in it.                        *)
(***************************************************************************)
\* _write_char without the retry decorator: the first error leaves the verb
Write_no_retry(t) ==
    /\ call[t].step = "write"
    /\ \E ok \in BOOLEAN :
         /\ ok => link = "up"
         /\ IF ok
            THEN /\ ev' = Event("write", t, Build(NewPacket(VerbPacket(call[t].verb))),
                                NoObj, VerbChannel(call[t].verb))
                 /\ IF call[t].verb = "hwinfo"
                    THEN /\ call' = [call EXCEPT ![t] = Idle]
                         /\ pc' = AfterVerb(pc)
                    ELSE /\ call' = [call EXCEPT ![t].step = "await"]
                         /\ pc' = pc
                 /\ UNCHANGED exc
            ELSE /\ call' = [call EXCEPT ![t] = Idle]
                 /\ ev' = Event("write", t, <<>>, NoObj, "BleakError")
                 /\ pc' = IF pc = "api" THEN pc ELSE "finally"
                 /\ exc' = IF pc = "api" THEN exc ELSE "BleakError"
    /\ UNCHANGED << gatt, link, notify, fut, af01_future, hwWrites, polls >>

\* one attempt of _write_char: the transport takes the packet, or raises a
\* BleakError; the decorator tries again until its attempts are used up,
\* and then the error leaves the verb
Write(t) ==
    /\ call[t].step = "write"
    /\ \E ok \in BOOLEAN :
         /\ ok => link = "up"
         /\ IF ok
            THEN LET verb == call[t].verb
                     pkt == Build(NewPacket(VerbPacket(verb)))
                 IN  /\ ev' = Event("write", t, pkt, NoObj, VerbChannel(verb))
                     /\ hwWrites' = IF verb # "hwinfo" THEN hwWrites
                                    ELSE IF hwWrites < 2 THEN hwWrites + 1 ELSE 2
                     /\ polls' = IF verb = "hwinfo" THEN polls
                                 ELSE IF Len(polls) < 2 THEN Append(polls, pkt[2])
                                 ELSE << polls[2], pkt[2] >>
                     /\ IF verb = "hwinfo"
                        THEN /\ call' = [call EXCEPT ![t] = Idle]
                             /\ pc' = AfterVerb(pc)
                        ELSE /\ call' = [call EXCEPT ![t].step = "await"]
                             /\ pc' = pc
                     /\ UNCHANGED exc
            ELSE IF call[t].tries + 1 < RetryAttempts
            THEN /\ call' = [call EXCEPT ![t].tries = @ + 1]
                 /\ ev' = Event("write", t, <<>>, NoObj, "retry")
                 /\ UNCHANGED << pc, exc, hwWrites, polls >>
            ELSE /\ call' = [call EXCEPT ![t] = Idle]
                 /\ ev' = Event("write", t, <<>>, NoObj, "BleakError")
                 /\ pc' = IF pc = "api" THEN pc ELSE "finally"
                 /\ exc' = IF pc = "api" THEN exc ELSE "BleakError"
                 /\ UNCHANGED << hwWrites, polls >>
    /\ UNCHANGED << gatt, link, notify, fut, af01_future >>

\* `return await fut`: the task goes on once its future has a result
Await(t) ==
    /\ call[t].step = "await"
    /\ fut[t].state = "done"
    /\ call' = [call EXCEPT ![t] = Idle]
    /\ pc' = AfterVerb(pc)
    /\ ev' = Event("return", t, <<>>, fut[t].result, call[t].verb)
    /\ UNCHANGED << gatt, link, notify, exc, fut, af01_future, hwWrites, polls >>

(***************************************************************************)
(* The transport: notifications and loss of the link.                      *)
(***************************************************************************)
\* the transport calls _af01_callback with a notification of AF01
NotifyAF01(data) ==
    /\ link = "up" /\ notify
    /\ LET r == af01_callback(af01_future, fut, data)
       IN  /\ af01_future' = r.slot
           /\ fut' = r.fut
           /\ ev' = Event("af01", None, data, r.obj, r.out)
    /\ UNCHANGED << gatt, link, notify, pc, exc, call, hwWrites, polls >>

DeliverAF01 == \E data \in InboundAF01 : NotifyAF01(data)

DeliverAF02 ==
    /\ link = "up" /\ notify
    /\ \E data \in InboundAF02 :
         LET r == af02_callback(data)
         IN  ev' = Event("af02", None, data, r.obj, r.out)
    /\ UNCHANGED << gatt, link, notify, pc, exc, call, fut, af01_future,
                    hwWrites, polls >>

LinkDrop ==
    /\ link = "up"
    /\ link' = "down"
    /\ ev' = Event("linkdrop", None, <<>>, NoObj, "")
    /\ UNCHANGED << gatt, notify, pc, exc, call, fut, af01_future,
                    hwWrites, polls >>

(***************************************************************************)
(* connect() and main() (lines 191-214, 284-303).                          *)
(***************************************************************************)
BLEAK_RETRY_EXCEPTIONS ==
    {"BleakError", "BleakCharacteristicNotFoundError", "AttributeError",
     "EOFError", "BrokenPipeError", "TimeoutError"}

\* `except BLEAK_RETRY_EXCEPTIONS` that catches nothing
Catches_nothing(e) == FALSE

\* `except BLEAK_RETRY_EXCEPTIONS` of main()
Catches(e) == e \in BLEAK_RETRY_EXCEPTIONS

\* line 195: establish_connection gives a connected client or raises; the
\* error is raised before the try, so main() catches it with nothing to close
EstablishConnection ==
    /\ pc = "establish"
    /\ \E ok \in BOOLEAN :
         IF ok
         THEN /\ link' = "up"
              /\ pc' = "setup"
              /\ exc' = None
              /\ ev' = Event("establish", "main", <<>>, NoObj, "connected")
         ELSE /\ link' = "none"
              /\ exc' = "BleakError"
              /\ pc' = IF Catches("BleakError") THEN "backoff" ELSE "failed"
              /\ ev' = Event("establish", "main", <<>>, NoObj, "BleakError")
    /\ UNCHANGED << gatt, notify, call, fut, af01_future, hwWrites, polls >>

\* lines 197-211: without the AF00 service the try is left for the finally;
\* start_notify raises when the client is not connected or is given no
\* characteristic; otherwise a new BluetoothCharger is yielded to the body
Setup ==
    /\ pc = "setup"
    /\ IF gatt = "no_af00"
       THEN /\ pc' = "finally"
            /\ exc' = None
            /\ ev' = Event("setup", "main", <<>>, NoObj, "no service")
            /\ UNCHANGED << notify, fut, af01_future, hwWrites, polls >>
       ELSE /\ af01_future' = None
            /\ fut' = [t \in Tasks |-> NoFuture]
            /\ hwWrites' = 0
            /\ polls' = <<>>
            /\ IF link # "up"
               THEN /\ pc' = "finally"
                    /\ exc' = "BleakError"
                    /\ ev' = Event("setup", "main", <<>>, NoObj, "BleakError")
                    /\ UNCHANGED notify
               ELSE IF gatt = "no_af01"
               THEN /\ pc' = "finally"
                    /\ exc' = "BleakCharacteristicNotFoundError"
                    /\ ev' = Event("setup", "main", <<>>, NoObj,
                                   "BleakCharacteristicNotFoundError")
                    /\ UNCHANGED notify
               ELSE /\ pc' = "hwinfo"
                    /\ exc' = None
                    /\ notify' = TRUE
                    /\ ev' = Event("setup", "main", <<>>, NoObj, "yield")
    /\ UNCHANGED << gatt, link, call >>

\* the statement of main()'s body that starts a verb
MainCall ==
    /\ pc \in {"hwinfo", "dc", "ws"}
    /\ IF pc = "hwinfo" THEN write_af02("main", pc) ELSE request_af01("main", pc)
    /\ UNCHANGED << gatt, link, notify, pc, exc, hwWrites, polls >>

\* line 300
Sleep ==
    /\ pc = "sleep"
    /\ pc' = "dc"
    /\ ev' = Event("sleep", "main", <<>>, NoObj, "")
    /\ UNCHANGED << gatt, link, notify, exc, call, fut, af01_future,
                    hwWrites, polls >>

\* lines 212-214 and 301-302: the finally disconnects; an exception of the
\* body or of the setup goes on to main(), which catches the retry
\* exceptions; without one the ValueError of line 214 is raised
Disconnect ==
    /\ pc = "finally"
    /\ link' = "none"
    /\ notify' = FALSE
    /\ exc' = IF exc = None THEN "ValueError" ELSE exc
    /\ pc' = IF Catches(exc') THEN "backoff" ELSE "failed"
    /\ ev' = Event("disconnect", "main", <<>>, NoObj, exc')
    /\ UNCHANGED << gatt, call, fut, af01_future, hwWrites, polls >>

\* line 303, and the next turn of `while True`
Backoff ==
    /\ pc = "backoff"
    /\ pc' = "establish"
    /\ ev' = Event("backoff", "main", <<>>, NoObj, "")
    /\ UNCHANGED << gatt, link, notify, exc, call, fut, af01_future,
                    hwWrites, polls >>

\* a task that calls a correlated verb of a connected charger
ApiCall(t) ==
    /\ pc = "api"
    /\ \E verb \in {"dc", "ws"} : request_af01(t, verb)
    /\ UNCHANGED << gatt, link, notify, pc, exc, hwWrites, polls >>

(***************************************************************************)
(* Specifications.                                                         *)
(***************************************************************************)
Init ==
    /\ gatt \in {"full", "no_af00", "no_af01"}
    /\ link = "none"
    /\ notify = FALSE
    /\ pc = "establish"
    /\ exc = None
    /\ call = [t \in Tasks |-> Idle]
    /\ fut = [t \in Tasks |-> NoFuture]
    /\ af01_future = None
    /\ hwWrites = 0
    /\ polls = <<>>
    /\ ev = Event("init", None, <<>>, NoObj, "")

MainStep ==
    \/ EstablishConnection
    \/ Setup
    \/ MainCall
    \/ Write("main")
    \/ Await("main")
    \/ Sleep
    \/ Disconnect
    \/ Backoff

Next ==
    \/ MainStep
    \/ DeliverAF01
    \/ DeliverAF02
    \/ LinkDrop

\* the program: one device, main() as the only task
Spec == Init /\ [][Next]_vars

\* the event loop runs main() whenever it can go on; the device owes nothing
FairSpec == Spec /\ WF_vars(MainStep)

\* a connected charger used by two tasks
ApiInit ==
    /\ gatt = "full"
    /\ link = "up"
    /\ notify = TRUE
    /\ pc = "api"
    /\ exc = None
    /\ call = [t \in Tasks |-> Idle]
    /\ fut = [t \in Tasks |-> NoFuture]
    /\ af01_future = None
    /\ hwWrites = 0
    /\ polls = <<>>
    /\ ev = Event("init", None, <<>>, NoObj, "")

ApiDeliverAF01 == \E data \in ApiInboundAF01 : NotifyAF01(data)

ApiNext ==
    \/ \E t \in Tasks : ApiCall(t)
    \/ \E t \in Tasks : Write(t)
    \/ \E t \in Tasks : Await(t)
    \/ ApiDeliverAF01

ApiSpec == ApiInit /\ [][ApiNext]_vars

(***************************************************************************)
(* The codec on its own: a value of a registered packet class is built     *)
(* and the bytes are parsed again.                                         *)
(***************************************************************************)
TimestampVals == {0, 258, 16777216, 2147483647}
ByteVals == {0, 1, 255}
DCChannelVals ==
    { DCChannelVal,
      << 0, 0, 0, 0, 0, 0, 0 >>,
      << 255, 255, 2147483647, 16777216, 65535, 256, 1 >> }
WSChannelVals ==
    { WSChannelVal,
      << 0, 0, 0, 0, << 0, 0 >>, 0, 0, 0, 0, 0, 0, 0 >>,
      << 255, 255, 255, 255, << 255, 1 >>,
         2147483647, 16777216, 65535, 256, 1, 255, 65536 >> }

\* the valid instances of a registered class the codec is tried with: the
\* channel list of a telemetry response has total_channels entries
ValuesOf(cls) ==
    CASE cls = "AlarmToneResp" ->
           {[cls |-> cls, val |-> << 49, 147, b >>] : b \in BOOLEAN}
      [] cls = "AlarmToneTaskReq" ->
           {[cls |-> cls, val |-> << 19, 156, b >>] : b \in ByteVals}
      [] cls = "AlarmToneTaskResp" ->
           {[cls |-> cls, val |-> << 18, 157, b >>] : b \in ByteVals}
      [] cls = "PS200DCStatusResp" ->
           UNION {{[cls |-> cls, val |-> << 49, 151, ts, n, chs >>] :
                      ts \in TimestampVals, chs \in [1..n -> DCChannelVals]} :
                  n \in 0..MaxChannels}
      [] cls = "PS200WorkingStatusResp" ->
           UNION {{[cls |-> cls, val |-> << 49, 149, n, ts, chs >>] :
                      ts \in TimestampVals, chs \in [1..n -> WSChannelVals]} :
                  n \in 0..MaxChannels}
      [] OTHER -> {NewPacket(cls)}

RegisteredClasses == {CMD_CLASSES[c] : c \in DOMAIN CMD_CLASSES}

CodecInit ==
    /\ gatt = "full"
    /\ link = "none"
    /\ notify = FALSE
    /\ pc = "codec"
    /\ exc = None
    /\ call = [t \in Tasks |-> Idle]
    /\ fut = [t \in Tasks |-> NoFuture]
    /\ af01_future = None
    /\ hwWrites = 0
    /\ polls = <<>>
    /\ \E cls \in RegisteredClasses : \E v \in ValuesOf(cls) :
         ev = Event("value", None, <<>>, v, "")

\* packet.parser.build(packet)
Encode ==
    /\ pc = "codec" /\ ev.op = "value"
    /\ ev' = Event("encoded", None, Build(ev.obj), ev.obj, "")
    /\ UNCHANGED << gatt, link, notify, pc, exc, call, fut, af01_future,
                    hwWrites, polls >>

\* cls.parser.parse(data)
Decode ==
    /\ pc = "codec" /\ ev.op = "encoded"
    /\ LET r == Parse(ev.obj.cls, ev.data)
       IN  ev' = Event("decoded", None, ev.data, r.obj,
                       IF r.ok THEN "ok" ELSE "ConstructError")
    /\ UNCHANGED << gatt, link, notify, pc, exc, call, fut, af01_future,
                    hwWrites, polls >>

CodecNext == Encode \/ Decode

CodecSpec == CodecInit /\ [][CodecNext]_vars

(***************************************************************************)
(* connect() under a caller whose `async with` body can finish.            *)
(***************************************************************************)
\* the body of `async with connect(...)` ends without an exception after a
\* round of polls: the generator goes on after its yield, into the finally
BodyEnds ==
    /\ pc = "sleep"
    /\ pc' = "finally"
    /\ exc' = None
    /\ ev' = Event("body", "main", <<>>, NoObj, "end")
    /\ UNCHANGED << gatt, link, notify, call, fut, af01_future, hwWrites, polls >>

ConnNext == Next \/ BodyEnds

ConnSpec == Init /\ [][ConnNext]_vars

(***************************************************************************)
(* DeviceInfo.from_advertisement and enumerate_devices (lines 28-68,       *)
(* 271-282).  Text is a sequence of code points, bytes a sequence of       *)
(* numbers; the samples hold ASCII and the byte 0xFF, which no UTF-8 text  *)
(* contains.                                                               *)
(***************************************************************************)
ID_MANUFACTURER == 43962
MAGIC_MANUFACTURER == << 175, 250 >>

\* s[a:b] of Python, for 0 <= a <= b
Slice(s, a, b) == SubSeq(s, a + 1, IF b < Len(s) THEN b ELSE Len(s))

HexDigits ==
    << "0", "1", "2", "3", "4", "5", "6", "7",
       "8", "9", "a", "b", "c", "d", "e", "f" >>

RECURSIVE Hex(_)
\* bytes.hex()
Hex(b) ==
    IF b = <<>> THEN <<>>
    ELSE << HexDigits[(b[1] \div 16) + 1], HexDigits[(b[1] % 16) + 1] >>
           \o Hex(Tail(b))

RECURSIVE RStripZero(_)
\* bytes.rstrip(b'\0')
RStripZero(b) ==
    IF b # <<>> /\ b[Len(b)] = 0 THEN RStripZero(SubSeq(b, 1, Len(b) - 1)) ELSE b

\* bytes.decode(): ASCII bytes are their code points; a byte from 0xF5 on
\* is in no UTF-8 sequence and raises UnicodeDecodeError
Utf8Decode(b) ==
    IF \E i \in 1..Len(b) : b[i] >= 245
    THEN [ok |-> FALSE, val |-> <<>>]
    ELSE [ok |-> TRUE, val |-> b]

Whitespace == {9, 10, 11, 12, 13, 32}

RECURSIVE Strip(_)
\* str.strip()
Strip(s) ==
    IF s # <<>> /\ s[1] \in Whitespace THEN Strip(Tail(s))
    ELSE IF s # <<>> /\ s[Len(s)] \in Whitespace
    THEN Strip(SubSeq(s, 1, Len(s) - 1))
    ELSE s

\* `x or default` for strings: the empty string is the only false one
StrOr(s, default) == IF s # <<>> THEN s ELSE default

\* an advertisement: manufacturer_data maps company ids to bytes; local_name
\* is a string or, with named false, None
Advert(md, named, name) ==
    [manufacturer_data |-> md, named |-> named, local_name |-> name]

\* manufacturer_data.get(ID_MANUFACTURER) is not empty and starts with the magic
CarriesMagic(ad) ==
    /\ ID_MANUFACTURER \in DOMAIN ad.manufacturer_data
    /\ ad.manufacturer_data[ID_MANUFACTURER] # <<>>
    /\ Slice(ad.manufacturer_data[ID_MANUFACTURER], 0, 2) = MAGIC_MANUFACTURER

\* DeviceInfo.from_advertisement: the DeviceInfo, or the exception raised;
\* the arguments of cls(...) are evaluated in the order they are written
from_advertisement(ad) ==
    IF ~CarriesMagic(ad) THEN [out |-> "ValueError", obj |-> NoObj]
    ELSE LET md == ad.manufacturer_data[ID_MANUFACTURER]
             name == ad.local_name
             user == Utf8Decode(RStripZero(Slice(md, 6, Len(md))))
         IN  IF ~user.ok THEN [out |-> "UnicodeDecodeError", obj |-> NoObj]
             ELSE IF ~ad.named THEN [out |-> "TypeError", obj |-> NoObj]
             ELSE IF Len(name) <= 12 THEN [out |-> "IndexError", obj |-> NoObj]
             ELSE IF Len(name) <= 25 THEN [out |-> "IndexError", obj |-> NoObj]
             ELSE [out |-> "ok",
                   obj |-> [cls |-> "DeviceInfo",
                            val |-> << Hex(Slice(md, 2, 6)),
                                       user.val,
                                       Slice(name, 0, 4),
                                       Strip(Slice(name, 4, 12)),
                                       StrOr(<< name[13] >>, << 83 >>),
                                       Slice(name, 13, 18),
                                       << name[26] >> >>]]

\* UnicodeDecodeError is a ValueError
ValueErrors == {"ValueError", "UnicodeDecodeError"}

\* a broadcast name of the given length with the given code point at offset
\* 12 and a padded device field at offsets 4..11
NameOf(len, ws) ==
    [i \in 1..len |-> IF i = 13 THEN ws
                      ELSE IF i \in {5, 12} THEN 32
                      ELSE IF i \in 6..11 THEN 80
                      ELSE 120]

ManufacturerData ==
    { <<>>,
      (76 :> << 175, 250, 1, 14, 0, 0 >>),
      (ID_MANUFACTURER :> <<>>),
      (ID_MANUFACTURER :> << 175 >>),
      (ID_MANUFACTURER :> << 1, 2, 3, 4, 5, 6 >>),
      (ID_MANUFACTURER :> << 175, 250 >>),
      (ID_MANUFACTURER :> << 175, 250, 1, 14, 0, 0, 65, 66, 0, 0 >>),
      (ID_MANUFACTURER :> << 175, 250, 1, 14, 0, 0, 255, 0 >>) }

\* the advertisements the scanner is tried with
Advertisements ==
    {Advert(md, TRUE, NameOf(len, ws)) :
        md \in ManufacturerData, len \in {0, 12}, ws \in {83}}
      \cup {Advert(md, TRUE, NameOf(len, ws)) :
              md \in ManufacturerData, len \in {13, 25, 26, 31}, ws \in {67, 83, 0}}
      \cup {Advert(md, FALSE, <<>>) : md \in ManufacturerData}

ScanInit ==
    /\ gatt = "full"
    /\ link = "none"
    /\ notify = FALSE
    /\ pc = "scan"
    /\ exc = None
    /\ call = [t \in Tasks |-> Idle]
    /\ fut = [t \in Tasks |-> NoFuture]
    /\ af01_future = None
    /\ hwWrites = 0
    /\ polls = <<>>
    /\ ev = Event("init", None, <<>>, NoObj, "")

\* one turn of the loop of enumerate_devices: the advertisement is yielded
\* with its DeviceInfo, a ValueError is passed over, and any other
\* exception leaves the generator and ends the enumeration
Advertise ==
    /\ pc = "scan"
    /\ \E ad \in Advertisements :
         LET r == from_advertisement(ad)
         IN  IF r.out = "ok"
             THEN /\ ev' = Event("advert", None, ad, r.obj, "yield")
                  /\ UNCHANGED << pc, exc >>
             ELSE IF r.out \in ValueErrors
             THEN /\ ev' = Event("advert", None, ad, NoObj, "filtered")
                  /\ UNCHANGED << pc, exc >>
             ELSE /\ ev' = Event("advert", None, ad, NoObj, r.out)
                  /\ pc' = "failed"
                  /\ exc' = r.out
    /\ UNCHANGED << gatt, link, notify, call, fut, af01_future, hwWrites, polls >>

ScanNext == Advertise

ScanSpec == ScanInit /\ [][ScanNext]_vars

(***************************************************************************)
(* Properties.                                                             *)
(***************************************************************************)
\* a notification whose command byte is registered and whose bytes parse
Decodable(data) ==
    /\ Len(data) >= 2
    /\ data[2] \in DOMAIN CMD_CLASSES
    /\ Parse(CMD_CLASSES[data[2]], data).ok
Decoded(data) == Parse(CMD_CLASSES[data[2]], data).obj

\* C1: a registered, decodable AF01 notification resolves the pending future
\* with the decoded value, once (the future in the slot is always still
\* pending), touches no other future and empties the slot; with an empty slot
\* it resolves nothing and the slot stays empty.
C1_ResolvesPendingOnce ==
    /\ [](af01_future # None => fut[af01_future].state = "pending")
    /\ [][ (ev'.op = "af01" /\ Decodable(ev'.data)) =>
             IF af01_future # None
             THEN /\ fut[af01_future].state = "pending"
                  /\ fut'[af01_future].state = "done"
                  /\ fut'[af01_future].result = Decoded(ev'.data)
                  /\ \A t \in Tasks \ {af01_future} : fut'[t] = fut[t]
                  /\ af01_future' = None
             ELSE /\ fut' = fut
                  /\ af01_future' = None ]_vars

\* a future was resolved, and a later decodable notification found the slot
\* empty and was discarded
C1_Witness ==
    /\ ev.op = "af01" /\ ev.out = "unexpected" /\ Decodable(ev.data)
    /\ af01_future = None
    /\ \E t \in Tasks : fut[t].state = "done"

\* C2: a correlated request the device does not answer is ended by a
\* timeout: while the link stays up, the caller of request_af01 does not
\* wait forever.
C2_SilenceTimesOut ==
    (call["main"].step = "await" /\ link = "up")
        ~> (call["main"].step # "await" \/ link # "up")

\* C3: when the link is lost while a correlated request is pending, the
\* caller is released.
C3_TeardownReleasesCaller ==
    (call["main"].step = "await" /\ fut["main"].state = "pending" /\ link = "down")
        ~> (call["main"].step # "await")

\* C4: a request made while another is pending takes the slot and leaves the
\* earlier future as it was; no step resolves the futures of two callers.
C4_NeverResolvesBoth ==
    /\ [][ ev'.op = "request" =>
             /\ af01_future' = ev'.task
             /\ \A u \in Tasks \ {ev'.task} : fut'[u] = fut[u] ]_vars
    /\ [][ Cardinality({t \in Tasks : fut[t].state = "pending"
                                       /\ fut'[t].state = "done"}) <= 1 ]_vars

\* two callers wait, one response has come: it resolved the later caller's
\* future and left the superseded one pending
C4_Witness ==
    /\ ev.op = "af01" /\ ev.out = "resolved"
    /\ \E t, u \in Tasks :
         /\ t # u
         /\ call[t].step = "await" /\ fut[t].state = "pending"
         /\ call[u].step = "await" /\ fut[u].state = "done"

\* the response class of a correlated verb
ResponseOf(verb) ==
    IF verb = "dc" THEN "PS200DCStatusResp" ELSE "PS200WorkingStatusResp"

\* C5: a correlated verb is resolved with the response of its own request:
\* get_ps200_dc_status with a PS200DCStatusResp, get_ps200_working_status
\* with a PS200WorkingStatusResp.
C5_ResolvedWithOwnResponse ==
    \A t \in Tasks :
        (call[t].step = "await" /\ fut[t].state = "done")
            => fut[t].result.cls = ResponseOf(call[t].verb)

\* C6: an AF02 notification that is a bind response (0x19) or a hardware-info
\* response (0xE1) is logged as the decoded packet; any other notification is
\* logged as the raw bytes.
C6_PushDecoded ==
    (ev.op = "af02" /\ Len(ev.data) >= 1) =>
        IF ev.data[1] = 25
        THEN Parse("BindResp", ev.data).ok => ev.obj.cls = "BindResp"
        ELSE IF ev.data[1] = 225
        THEN Parse("BLEHardwareInfoResp", ev.data).ok
                 => ev.obj.cls = "BLEHardwareInfoResp"
        ELSE ev.obj.cls = "bytes" /\ ev.obj.val = ev.data

\* the setup found the AF00 service or one of its characteristics missing
FatalAtConnect ==
    pc = "finally" /\ exc \in {None, "BleakCharacteristicNotFoundError"}

C8_TransientReconnects ==
    /\ [][ (pc = "finally" /\ exc = "BleakError" /\ pc' # pc) =>
             (pc' = "backoff" /\ link' = "none") ]_vars
    /\ [][ (pc = "establish" /\ pc' \notin {"establish", "setup"}) =>
             (pc' = "backoff" /\ exc' = "BleakError") ]_vars
    /\ [][ pc = "backoff" => pc' \in {"backoff", "establish"} ]_vars
    /\ [](pc \in {"backoff", "establish"} => link = "none")
    /\ (pc = "backoff" ~> pc = "establish")

\* a write of the poll loop failed, the session was closed and main() is
\* about to connect again
C8_Witness ==
    pc = "backoff" /\ exc = "BleakError" /\ link = "none" /\ Len(polls) >= 1

\* C9: on a connection the hardware-info request is written once, before any
\* poll request; the poll requests are DC status and working status in turn,
\* DC status first; a correlated request starts only when the one before it
\* has been resolved.
C9_PollSequence ==
    /\ [](hwWrites <= 1 /\ (polls # <<>> => hwWrites = 1))
    /\ [][ (ev'.op = "write" /\ ev'.out = "AF01") =>
             ev'.data = IF polls # <<>> /\ polls[Len(polls)] = 150
                        THEN << 18, 148 >> ELSE << 18, 150 >> ]_vars
    /\ [][ (ev'.op = "request" /\ ev'.out # "hwinfo") =>
             (fut[ev'.task].state # "pending" /\ af01_future = None) ]_vars

\* the poll loop has come round: a working-status request and then a
\* DC-status request were written on this connection
C9_Witness ==
    /\ ev.op = "write" /\ ev.out = "AF01"
    /\ polls = << 148, 150 >>
    /\ hwWrites = 1

\* an AF01 notification that could not be decoded
DecodeFailed ==
    ev.op = "af01" /\ ev.out \in {"ConstructError", "IndexError"}

\* C10: a notification that cannot be decoded is dropped, main() does not
\* end, and, while the link stays up, the poll loop makes a further
\* correlated request.
C10_DecodeFailureResumes ==
    /\ [](DecodeFailed => pc # "failed")
    /\ (DecodeFailed /\ link = "up")
          ~> ((ev.op = "request" /\ ev.out # "hwinfo") \/ link # "up")


\* C11: an AF01 notification whose command byte is not in _CMD_CLASSES is
\* logged and dropped: no future changes, the slot keeps what it held, and
\* main() and the connection go on as they were.
C11_UnknownCommandDropped ==
    [][ (ev'.op = "af01" /\ Len(ev'.data) >= 2
           /\ ev'.data[2] \notin DOMAIN CMD_CLASSES) =>
          /\ ev'.out = "unknown"
          /\ fut' = fut
          /\ af01_future' = af01_future
          /\ call' = call
          /\ << pc, exc, link, notify >>' = << pc, exc, link, notify >> ]_vars

\* an unknown message came while main() waits: the slot still holds its future
C11_Witness ==
    /\ ev.op = "af01" /\ ev.out = "unknown"
    /\ af01_future = "main"
    /\ fut["main"].state = "pending"
    /\ call["main"].step = "await"

\* C12: a failed write is tried again once, and only the write: the second
\* failure leaves the verb; no attempt of the write touches the future or the
\* slot, so the future awaited after a retried write is the one request_af01
\* created before the first attempt.
C12_RetryOnlyTheWrite ==
    /\ [](\A t \in Tasks : call[t].tries <= 1)
    /\ [][ ev'.op = "write" =>
             /\ fut' = fut
             /\ af01_future' = af01_future
             /\ (ev'.out = "retry" =>
                    /\ call[ev'.task].tries = 0
                    /\ call'[ev'.task] = [call[ev'.task] EXCEPT !.tries = 1])
             /\ (ev'.out = "BleakError" => call[ev'.task].tries = 1) ]_vars

\* the second attempt of a correlated request's write succeeded: the task
\* waits on the future it put into the slot before the first attempt
C12_Witness ==
    /\ ev.op = "write" /\ ev.out = "AF01"
    /\ call[ev.task].tries = 1
    /\ call[ev.task].step = "await"
    /\ af01_future = ev.task
    /\ fut[ev.task].state = "pending"


\* the classes named ...Resp among those decorated with req/resp
ResponseClasses ==
    {"AlarmToneResp", "PS200WorkingStatusResp", "PS200DCStatusResp",
     "AlarmToneTaskResp"}

\* the direction byte a packet class builds and demands
DirectionOf(cls) == Struct(cls)[1].v

\* C13: every packet _af01_callback decodes as a response class carries the
\* response direction byte 0x31, and every one it decodes as a request class
\* carries 0x12, but for the alarm-tone-task request, which carries 0x13.
C13_DirectionMarkers ==
    (ev.op = "af01" /\ ev.out \in {"resolved", "unexpected"}) =>
        /\ ev.data[1] = DirectionOf(ev.obj.cls)
        /\ DirectionOf(ev.obj.cls) =
             IF ev.obj.cls \in ResponseClasses THEN RespDirection
             ELSE IF ev.obj.cls = "AlarmToneTaskReq" THEN 19
             ELSE ReqDirection


\* C14: for every registered packet class, parsing the bytes built from a
\* valid instance gives the instance back; for the two telemetry responses
\* with no channel record and with total_channels of them.
C14_RoundTrip ==
    [][ ev'.op = "decoded" =>
          /\ ev'.out = "ok"
          /\ ev'.obj.cls = ev.obj.cls
          /\ ev'.obj.val = ev.obj.val ]_vars

\* a working-status response with channel records went through the codec
C14_Witness ==
    /\ ev.op = "decoded" /\ ev.out = "ok"
    /\ ev.obj.cls = "PS200WorkingStatusResp"
    /\ ev.obj.val[3] >= 1
    /\ Len(ev.obj.val[5]) = ev.obj.val[3]
    /\ ev.obj.val[4] = 258


\* the vendor's entry of the manufacturer data starts with the magic marker
MarkerPresent(ad) ==
    /\ ID_MANUFACTURER \in DOMAIN ad.manufacturer_data
    /\ Len(ad.manufacturer_data[ID_MANUFACTURER]) >= 2
    /\ ad.manufacturer_data[ID_MANUFACTURER][1] = 175
    /\ ad.manufacturer_data[ID_MANUFACTURER][2] = 250

\* C15: an advertisement without the vendor's entry or without the marker is
\* passed over silently, one with the marker is yielded, and no
\* advertisement ends the enumeration.
C15_EnumerationFilters ==
    ev.op = "advert" =>
        /\ ev.out = IF MarkerPresent(ev.data) THEN "yield" ELSE "filtered"
        /\ pc # "failed"

\* the work_state the broadcast name stands for: the character at offset 12,
\* 'S' when the name has none there or it is NUL
WorkStateOf(name) ==
    IF Len(name) >= 13 /\ name[13] # 0 THEN << name[13] >> ELSE << 83 >>

\* C16: for an advertisement with the marker, the DeviceInfo has the
\* work_state of the broadcast name, and a name too short to have a
\* character at offset 12 does not make the parser fail on it.
C16_WorkStateDefault ==
    (ev.op = "advert" /\ MarkerPresent(ev.data) /\ ev.data.named) =>
        /\ ev.out = "yield" => ev.obj.val[5] = WorkStateOf(ev.data.local_name)
        /\ Len(ev.data.local_name) < 13 => ev.out # "IndexError"


\* the command codes of the request classes
RequestCodes == {146, 148, 150, 156}

\* C17: a pending correlated request is only ever resolved with a response
\* packet, and a notification carrying a request command code (0x92, 0x94,
\* 0x96, 0x9C) never resolves one.
C17_ResponsesOnly ==
    (ev.op = "af01" /\ ev.out = "resolved") =>
        /\ ev.obj.cls \in ResponseClasses
        /\ ev.data[2] \notin RequestCodes


\* C18: a future is in the slot only while the verb that created it is
\* writing its request or awaiting the future; once the write has failed
\* for good and the error has left the verb, the slot is empty.
C18_NoDanglingFuture ==
    \A t \in Tasks :
        af01_future = t => call[t].step \in {"write", "await"}


\* the main task is in a correlated verb, writing or awaiting
InCorrelatedVerb ==
    /\ call["main"].verb \in {"dc", "ws"}
    /\ call["main"].step \in {"write", "await"}

\* C19: from the moment the write of a correlated request starts, the
\* sender's future is in the slot until it has a result; a notification that
\* decodes while the future is pending gives it the decoded packet, also
\* before the write has returned; the result stays until the sender's await
\* returns it.
C19_NoLostResponse ==
    /\ [](InCorrelatedVerb /\ fut["main"].state = "pending"
              => af01_future = "main")
    /\ [][ /\ (/\ InCorrelatedVerb
               /\ fut["main"].state = "pending"
               /\ ev'.op = "af01"
               /\ ev'.out \notin {"IndexError", "unknown", "ConstructError"})
                 => /\ ev'.out = "resolved"
                    /\ fut'["main"].state = "done"
                    /\ fut'["main"].result.cls = ev'.obj.cls
                    /\ fut'["main"].result.val = ev'.obj.val
           /\ (InCorrelatedVerb /\ fut["main"].state = "done")
                 => /\ fut'["main"].state = "done"
                    /\ fut'["main"].result.cls = fut["main"].result.cls
                    /\ fut'["main"].result.val = fut["main"].result.val
                    /\ ev'.op = "return"
                         => /\ ev'.task = "main"
                            /\ ev'.obj.cls = fut["main"].result.cls
                            /\ ev'.obj.val = fut["main"].result.val ]_vars

\* a response has resolved the future while the request is still being written
C19_Witness ==
    /\ call["main"].step = "write"
    /\ call["main"].verb \in {"dc", "ws"}
    /\ fut["main"].state = "done"
    /\ ev.op = "af01"
    /\ ev.out = "resolved"


\* C20: leaving connect() raises the ValueError "service/characteristics not
\* found" exactly when the device has no AF00 service; with the service
\* present and a body that ended without an exception, nothing is raised.
C20_ValueErrorIffNoService ==
    ev.op = "disconnect" => (ev.out = "ValueError" <=> gatt = "no_af00")

====
